---- MODULE Spec2Model ----
(***************************************************************************)
(* A model of chat_viewer.py: the text-width engine (pad_text), the bubble *)
(* renderer (draw_bubble over textwrap.wrap), the transcript composer      *)
(* (format_chat), the conversation indexer (detect_my_email,               *)
(* get_dm_participant, the catalog loop of main) and the interactive run   *)
(* of main.                                                                *)
(*                                                                         *)
(* A Python str is a sequence of characters; a character is a one-letter   *)
(* TLA+ string, or a named token for a character outside ASCII:            *)
(*   "WIDE"  a double-width character (U+4E16),  "ZERO" a combining mark   *)
(*   (U+0301), "CTL" a non-printable control character (U+0007),           *)
(*   "PIN" U+1F4CC, "BULLET" U+2022, "ARROW" U+2192, and the box-drawing   *)
(*   characters "BOX_TL" "BOX_TR" "BOX_BL" "BOX_BR" "BOX_H" "BOX_V".       *)
(* None stands for Python's None and for an absent JSON key.  Sender        *)
(* identities (e-mail addresses) are strings as well.                      *)
(***************************************************************************)
EXTENDS Integers, Sequences, FiniteSets, TLC

VARIABLES
    pc,              \* position of the run (or of the call, in the unit specifications)
    term,            \* TERMINAL_WIDTH, read once at import
    archive,         \* the Groups folder: folder name -> its files
    groups_path,     \* main's groups_path, None until the Groups folder is found
    my_email,        \* main's my_email
    category,        \* main's category
    entries,         \* main's entries (the catalog lines)
    entry_folders,   \* the loop variable folder of each appended entry
    selected,        \* main's selected (the selector's answer)
    choice,          \* the position of the entry the user picked (0: none)
    folder,          \* main's folder, recovered from selected
    chat_text,       \* the document handed to open_pager
    pager_calls,     \* number of open_pager calls
    prompted,        \* whether input("Enter your email: ") was called
    history,         \* the steps of main entered so far, in order
    err,             \* the exception that ended the run, or "none"
    args,            \* the arguments of the function under test (unit specifications)
    ret              \* its result (unit specifications)

vars == <<pc, term, archive, groups_path, my_email, category, entries, entry_folders,
          selected, choice, folder, chat_text, pager_calls, prompted, history, err,
          args, ret>>

mainVars == <<archive, groups_path, my_email, category, entries, entry_folders,
              selected, choice, folder, chat_text, pager_calls, prompted, history, err>>

\* a one-element sequence holding a token no string contains
None == <<"None">>

\* the sender identities of the model
EmailA == <<"a", "@", "x">>

EmailB == <<"b", "@", "x">>

(***************************************************************************)
(* Bounds of the model.                                                    *)
(***************************************************************************)
MaxLen == 3          \* longest text handed to pad_text
MaxPadWidth == 4     \* largest width handed to pad_text
MaxBubbleText == 5   \* longest text handed to draw_bubble
MaxTerm == 12        \* widest terminal of the bubble specification
MaxDMMsgs == 3       \* longest conversation handed to get_dm_participant
MaxChatMsgs == 2     \* longest message list handed to format_chat
MaxMsgs == 2         \* longest messages file of the archive

(***************************************************************************)
(* Program constants.                                                      *)
(***************************************************************************)
SampleLimit == 200   \* messages[:200] of detect_my_email
NameColumn == 45     \* {name:<45} of the catalog lines

(***************************************************************************)
(* Strings.                                                                *)
(***************************************************************************)
Max(a, b) == IF a >= b THEN a ELSE b

Min(a, b) == IF a <= b THEN a ELSE b

\* c * n for a one-character string c (Python: c * n is "" when n <= 0)
Repeat(c, n) == [i \in 1..Max(0, n) |-> c]

Spaces(n) == Repeat(" ", n)

\* all sequences over S of length at most n
SeqsUpTo(S, n) == UNION {[1..k -> S] : k \in 0..n}

\* str.strip() for the whitespace of the model's alphabet
RECURSIVE LStrip(_)
LStrip(s) == IF s # <<>> /\ Head(s) = " " THEN LStrip(Tail(s)) ELSE s

RECURSIVE RStrip(_)
RStrip(s) ==
    IF s # <<>> /\ s[Len(s)] = " " THEN RStrip(SubSeq(s, 1, Len(s) - 1)) ELSE s

Strip(s) == RStrip(LStrip(s))

StartsWith(s, p) == Len(s) >= Len(p) /\ SubSeq(s, 1, Len(p)) = p

EndsWith(s, p) == Len(s) >= Len(p) /\ SubSeq(s, Len(s) - Len(p) + 1, Len(s)) = p

Contains(s, p) ==
    \E i \in 0..(Len(s) - Len(p)) : SubSeq(s, i + 1, i + Len(p)) = p

(***************************************************************************)
(* Text-width engine.                                                      *)
(***************************************************************************)
\* wcwidth.wcwidth of one character
WcWidth(c) ==
    CASE c = "WIDE" -> 2
      [] c = "PIN" -> 2
      [] c = "ZERO" -> 0
      [] c = "CTL" -> -1
      [] OTHER -> 1

RECURSIVE SumWidth(_)
SumWidth(s) == IF s = <<>> THEN 0 ELSE WcWidth(Head(s)) + SumWidth(Tail(s))

\* wcwidth.wcswidth: -1 as soon as one character is non-printable
wcswidth(s) ==
    IF \E i \in DOMAIN s : WcWidth(s[i]) < 0 THEN -1 ELSE SumWidth(s)

pad_text(text, width) ==
    LET extra == width - wcswidth(text)
    IN  text \o Spaces(Max(0, extra))

(***************************************************************************)
(* Terminal geometry.                                                      *)
(***************************************************************************)
\* int(TERMINAL_WIDTH * 0.55)
MAX_BUBBLE_WIDTH(T) == (T * 55) \div 100

(***************************************************************************)
(* textwrap.wrap(text, width) with its defaults, for texts whose only      *)
(* whitespace is the space and that hold no hyphen.                        *)
(***************************************************************************)
IsBlank(chunk) == \A i \in DOMAIN chunk : chunk[i] = " "

\* length of the leading run of s whose characters are (are not) spaces
RECURSIVE RunLen(_, _)
RunLen(s, space) ==
    IF s = <<>> \/ ((Head(s) = " ") # space) THEN 0 ELSE 1 + RunLen(Tail(s), space)

\* TextWrapper._split: the words and the runs of whitespace between them
RECURSIVE SplitChunks(_)
SplitChunks(s) ==
    IF s = <<>> THEN <<>>
    ELSE LET n == RunLen(s, Head(s) = " ")
         IN  <<SubSeq(s, 1, n)>> \o SplitChunks(SubSeq(s, n + 1, Len(s)))

RECURSIVE JoinChunks(_)
JoinChunks(cs) == IF cs = <<>> THEN <<>> ELSE Head(cs) \o JoinChunks(Tail(cs))

\* the inner loop of _wrap_chunks: take chunks while they fit
RECURSIVE FillLine(_, _, _, _)
FillLine(chunks, cur_line, cur_len, width) ==
    IF chunks # <<>> /\ cur_len + Len(Head(chunks)) <= width
    THEN FillLine(Tail(chunks), Append(cur_line, Head(chunks)),
                  cur_len + Len(Head(chunks)), width)
    ELSE [chunks |-> chunks, cur_line |-> cur_line, cur_len |-> cur_len]

\* TextWrapper._handle_long_word with break_long_words
HandleLongWord(f, width) ==
    IF f.chunks # <<>> /\ Len(Head(f.chunks)) > width
    THEN LET space_left == IF width < 1 THEN 1 ELSE width - f.cur_len
             chunk == Head(f.chunks)
         IN  [chunks |-> <<SubSeq(chunk, space_left + 1, Len(chunk))>> \o Tail(f.chunks),
              cur_line |-> Append(f.cur_line, SubSeq(chunk, 1, space_left)),
              cur_len |-> f.cur_len + space_left]
    ELSE f

\* drop_whitespace at the end of the line
DropTrailing(cur_line) ==
    IF cur_line # <<>> /\ IsBlank(cur_line[Len(cur_line)])
    THEN SubSeq(cur_line, 1, Len(cur_line) - 1)
    ELSE cur_line

\* the outer loop of TextWrapper._wrap_chunks
RECURSIVE WrapChunks(_, _, _)
WrapChunks(chunks, width, lines) ==
    IF chunks = <<>> THEN lines
    ELSE LET kept == IF IsBlank(Head(chunks)) /\ lines # <<>>
                     THEN Tail(chunks) ELSE chunks
             f == HandleLongWord(FillLine(kept, <<>>, 0, width), width)
             cur_line == DropTrailing(f.cur_line)
         IN  WrapChunks(f.chunks, width,
                        IF cur_line # <<>>
                        THEN Append(lines, JoinChunks(cur_line)) ELSE lines)

\* textwrap.wrap; width <= 0 raises ValueError (see draw_bubble)
Wrap(text, width) == WrapChunks(SplitChunks(text), width, <<>>)

(***************************************************************************)
(* Bubble renderer.                                                        *)
(***************************************************************************)
\* padding of a right-aligned bubble
RightPadding(T) == T - (MAX_BUBBLE_WIDTH(T) + 4)

BubbleTop(T) == <<"BOX_TL">> \o Repeat("BOX_H", MAX_BUBBLE_WIDTH(T) + 2) \o <<"BOX_TR">>

BubbleBottom(T) == <<"BOX_BL">> \o Repeat("BOX_H", MAX_BUBBLE_WIDTH(T) + 2) \o <<"BOX_BR">>

BubbleLine(line, T) == <<"BOX_V", " ">> \o pad_text(line, MAX_BUBBLE_WIDTH(T)) \o <<" ", "BOX_V">>

\* the lines of draw_bubble's result; textwrap.wrap raises ValueError when
\* MAX_BUBBLE_WIDTH is 0
draw_bubble(text, align, T) ==
    IF MAX_BUBBLE_WIDTH(T) <= 0 THEN [raised |-> "ValueError"]
    ELSE LET wrapped == Wrap(text, MAX_BUBBLE_WIDTH(T))
             bubble_lines == <<BubbleTop(T)>>
                             \o [i \in 1..Len(wrapped) |-> BubbleLine(wrapped[i], T)]
                             \o <<BubbleBottom(T)>>
         IN  [raised |-> "none",
              wrapped |-> wrapped,
              lines |-> IF align = "right"
                        THEN [i \in 1..Len(bubble_lines) |->
                                 Spaces(RightPadding(T)) \o bubble_lines[i]]
                        ELSE bubble_lines]

(***************************************************************************)
(* Messages.  A message is a record of the JSON fields the program reads:  *)
(* email and name (of its creator), text, message_labels (the label_type   *)
(* of each label) and created_date; None marks an absent key.              *)
(***************************************************************************)
RawDate ==
    <<"M", "o", "n", "d", "a", "y", ",", " ", "0", "1", " ", "J", "a", "n", "u", "a", "r",
      "y", " ", "2", "0", "2", "4", " ", "a", "t", " ", "1", "0", ":", "0", "0", ":", "0",
      "0", " ", "U", "T", "C">>

CleanedDate ==
    <<"2", "0", "2", "4", "-", "0", "1", "-", "0", "1", " ", "1", "0", ":", "0", "0">>

BadDate == <<"y", "e", "s", "t", "e", "r", "d", "a", "y">>

\* clean_date: the one date of the model that strptime accepts is reformatted,
\* every other string is passed through
clean_date(date_str) == IF date_str = RawDate THEN CleanedDate ELSE date_str

is_pinned(msg) ==
    \E i \in DOMAIN msg.message_labels : msg.message_labels[i] = "PINNED"

\* a faulty variant of count_pinned: counts every labelled message
count_pinned_any_label(messages) ==
    Cardinality({i \in DOMAIN messages : messages[i].message_labels # <<>>})

count_pinned(messages) ==
    Cardinality({i \in DOMAIN messages : is_pinned(messages[i])})

extract_pinned(messages) == SelectSeq(messages, is_pinned)

(***************************************************************************)
(* Conversation indexer: the DM participant.                               *)
(***************************************************************************)
Unknown == <<"U", "n", "k", "n", "o", "w", "n">>

DeletedUser == <<"D", "e", "l", "e", "t", "e", "d", " ", "U", "s", "e", "r">>

\* creator.get("name", "Unknown")
CreatorName(msg) == IF msg.name = None THEN Unknown ELSE msg.name

\* a faulty variant of get_dm_participant: keeps scanning and returns the
\* last usable name instead of the first
RECURSIVE get_dm_participant_last_name(_, _)
get_dm_participant_last_name(messages, me) ==
    IF messages = <<>> THEN DeletedUser
    ELSE LET msg == messages[Len(messages)]
             name == CreatorName(msg)
             front == SubSeq(messages, 1, Len(messages) - 1)
         IN  IF msg.email = me THEN get_dm_participant_last_name(front, me)
             ELSE IF name # <<>> /\ name # Unknown THEN name
             ELSE get_dm_participant_last_name(front, me)

RECURSIVE get_dm_participant(_, _)
get_dm_participant(messages, me) ==
    IF messages = <<>> THEN DeletedUser
    ELSE LET msg == Head(messages)
             name == CreatorName(msg)
         IN  IF msg.email = me THEN get_dm_participant(Tail(messages), me)
             ELSE IF name # <<>> /\ name # Unknown THEN name
             ELSE get_dm_participant(Tail(messages), me)

(***************************************************************************)
(* Transcript composer.                                                    *)
(***************************************************************************)
PinnedBanner ==
    << <<"PIN", " ", "S", "h", "o", "w", "i", "n", "g", " ", "O", "N", "L", "Y", " ", "p",
         "i", "n", "n", "e", "d", " ", "m", "e", "s", "s", "a", "g", "e", "s">>,
       <<>> >>

NavBanner ==
    << <<"N", "a", "v", "i", "g", "a", "t", "i", "o", "n", ":">>,
       <<" ", " ", " ", "/", "P", "I", "N", "N", "E", "D", " ", "ARROW", " ", "s", "e", "a",
         "r", "c", "h", " ", "p", "i", "n", "n", "e", "d">>,
       <<" ", " ", " ", "q", " ", " ", " ", " ", " ", " ", " ", "ARROW", " ", "q", "u", "i",
         "t", " ", "p", "a", "g", "e", "r">>,
       <<>> >>

Placeholder ==
    <<"[", "P", "i", "n", "n", "e", "d", " ", "m", "e", "s", "s", "a", "g", "e", " ", "(",
      "n", "o", "n", "-", "t", "e", "x", "t", ")", "]">>

PinIcon == <<"[", "P", "I", "N", "N", "E", "D", "]", " ">>

You == <<"Y", "o", "u">>

\* str.rjust(width)
RJust(s, width) == Spaces(width - Len(s)) \o s

\* msg.get("text", "").strip()
MsgText(msg) == Strip(IF msg.text = None THEN <<>> ELSE msg.text)

\* a faulty variant of Displayed: skips every message without text
Displayed_text_only(msg) == MsgText(msg) # <<>>

\* the messages the loop of format_chat does not skip
Displayed(msg) == MsgText(msg) # <<>> \/ is_pinned(msg)

\* one pass of the loop of format_chat over a displayed message
ChatBlock(msg, me, T) ==
    LET text == IF MsgText(msg) = <<>> THEN Placeholder ELSE MsgText(msg)
        date == clean_date(IF msg.created_date = None THEN <<>> ELSE msg.created_date)
        sender == IF msg.email = me THEN You ELSE CreatorName(msg)
        align == IF msg.email = me THEN "right" ELSE "left"
        pin_icon == IF is_pinned(msg) THEN PinIcon ELSE <<>>
        header == pin_icon \o sender \o <<" ", "BULLET", " ">> \o date
    IN  [header |-> IF align = "right" THEN RJust(header, T) ELSE header,
         text |-> text,
         align |-> align,
         bubble |-> draw_bubble(text, align, T)]

\* "\n".join over the items of output, each item given by its lines
RECURSIVE JoinBlocks(_)
JoinBlocks(blocks) ==
    IF blocks = <<>> THEN <<>>
    ELSE <<<<>>, Head(blocks).header>> \o Head(blocks).bubble.lines
         \o JoinBlocks(Tail(blocks))

\* format_chat: blocks are the header, text, align and bubble of each pass,
\* doc the lines of the returned document
format_chat(messages, me, pinned_only, T) ==
    LET shown == SelectSeq(messages, Displayed)
        blocks == [i \in 1..Len(shown) |-> ChatBlock(shown[i], me, T)]
    IN  IF \E i \in DOMAIN blocks : blocks[i].bubble.raised # "none"
        THEN [raised |-> "ValueError"]
        ELSE [raised |-> "none",
              blocks |-> blocks,
              doc |-> (IF pinned_only THEN PinnedBanner ELSE NavBanner)
                      \o JoinBlocks(blocks)]

(***************************************************************************)
(* The archive.  A folder of Groups is a record of its messages.json       *)
(* (file) and its group_info.json (info).  A messages file is of kind      *)
(*   "missing"   no such file,         "invalid"  not JSON,                *)
(*   "messages"  {"messages": [...]},  "list"     a bare list,             *)
(*   "object"    an object without "messages",  "scalar" any other value.  *)
(***************************************************************************)
MissingFile == [kind |-> "missing", messages |-> <<>>]

\* load_messages: open and json.load raise on a missing or invalid file
load_messages(file) ==
    CASE file.kind = "missing" -> [raised |-> "FileNotFoundError", value |-> <<>>]
      [] file.kind = "invalid" -> [raised |-> "JSONDecodeError", value |-> <<>>]
      [] file.kind = "messages" -> [raised |-> "none", value |-> file.messages]
      [] file.kind = "list" -> [raised |-> "none", value |-> file.messages]
      [] OTHER -> [raised |-> "none", value |-> <<>>]

\* the messages.json of groups_path/folder
MessagesFile(arch, f) == IF f \in DOMAIN arch THEN arch[f].file ELSE MissingFile

\* get_space_title: None unless group_info.json is an object with a name
get_space_title(info) == IF info.kind = "object" THEN info.name ELSE None

(***************************************************************************)
(* Viewer-identity detection.  email_count is a dict: keys in insertion    *)
(* order, n the count of each key.                                         *)
(***************************************************************************)
TallyMessage(ec, msg) ==
    LET email == msg.email
    IN  IF email = None \/ email = <<>> THEN ec
        ELSE IF email \in DOMAIN ec.n
             THEN [ec EXCEPT !.n[email] = @ + 1]
             ELSE [keys |-> Append(ec.keys, email), n |-> (email :> 1) @@ ec.n]

RECURSIVE TallyMessages(_, _)
TallyMessages(ec, messages) ==
    IF messages = <<>> THEN ec
    ELSE TallyMessages(TallyMessage(ec, Head(messages)), Tail(messages))

\* one pass of the loop over os.listdir: data.get raises AttributeError on
\* a list or a scalar, json.load raises on invalid JSON, and the except
\* clause moves on to the next folder
TallyFolder(ec, file) ==
    CASE file.kind = "messages" ->
            TallyMessages(ec, SubSeq(file.messages, 1, Min(SampleLimit, Len(file.messages))))
      [] OTHER -> ec

RECURSIVE TallyFolders(_, _, _)
TallyFolders(ec, arch, listing) ==
    IF listing = <<>> THEN ec
    ELSE TallyFolders(TallyFolder(ec, arch[Head(listing)].file), arch, Tail(listing))

\* max(email_count, key=email_count.get): the first key of maximal count
FirstMaxKey(ec) ==
    LET best == CHOOSE m \in {ec.n[k] : k \in DOMAIN ec.n} :
                    \A k \in DOMAIN ec.n : ec.n[k] <= m
        i == CHOOSE j \in DOMAIN ec.keys :
                 /\ ec.n[ec.keys[j]] = best
                 /\ \A h \in DOMAIN ec.keys : ec.n[ec.keys[h]] = best => j <= h
    IN  ec.keys[i]

\* detect_my_email, listing the folders in the order os.listdir gives them
detect_my_email(arch, listing) ==
    LET email_count == TallyFolders([keys |-> <<>>, n |-> <<>>], arch, listing)
    IN  IF email_count.keys = <<>> THEN None ELSE FirstMaxKey(email_count)

(***************************************************************************)
(* The selector and the catalog.                                           *)
(***************************************************************************)
\* code point of the characters of the folder names
Ord(c) ==
    CASE c = "1" -> 49 [] c = "2" -> 50 [] c = "D" -> 68 [] c = "M" -> 77
      [] c = "S" -> 83 [] c = "a" -> 97 [] c = "c" -> 99 [] c = "e" -> 101
      [] c = "p" -> 112 [] c = "|" -> 124

\* Python's s < t on strings
RECURSIVE StrLess(_, _)
StrLess(s, t) ==
    IF t = <<>> THEN FALSE
    ELSE IF s = <<>> THEN TRUE
    ELSE IF Head(s) # Head(t) THEN Ord(Head(s)) < Ord(Head(t))
    ELSE StrLess(Tail(s), Tail(t))

\* sorted(os.listdir(groups_path))
RECURSIVE Sorted(_)
Sorted(S) ==
    IF S = {} THEN <<>>
    ELSE LET m == CHOOSE x \in S : \A y \in S : x = y \/ StrLess(x, y)
         IN  <<m>> \o Sorted(S \ {m})

\* the orders os.listdir may give
Listings(S) ==
    {l \in [1..Cardinality(S) -> S] : \A i, j \in DOMAIN l : l[i] = l[j] => i = j}

DigitChar(d) ==
    CASE d = 0 -> "0" [] d = 1 -> "1" [] d = 2 -> "2" [] d = 3 -> "3" [] d = 4 -> "4"
      [] d = 5 -> "5" [] d = 6 -> "6" [] d = 7 -> "7" [] d = 8 -> "8" [] d = 9 -> "9"

\* str(n) of a natural number
RECURSIVE Str(_)
Str(n) == IF n < 10 THEN <<DigitChar(n)>> ELSE Str(n \div 10) \o <<DigitChar(n % 10)>>

\* the annotation " (PIN n)" of a conversation with pinned messages
PinnedSuffix(pinned_count) ==
    IF pinned_count > 0 THEN <<" ", "(", "PIN", " ">> \o Str(pinned_count) \o <<")">>
    ELSE <<>>

\* f"{tag}  {label:<45} | {folder}"
EntryLine(tag, label, f) ==
    tag \o <<" ", " ">> \o label \o Spaces(NameColumn - Len(label)) \o <<" ", "|", " ">> \o f

CatDM == <<"D", "M">>

CatSpace == <<"S", "P", "A", "C", "E">>

CatPinned == <<"P", "I", "N", "N", "E", "D", " ", "O", "N", "L", "Y">>

\* the loop of main over the sorted folders; acc holds entries, the folder of
\* each entry, and the exception that ended the loop
RECURSIVE BuildEntries(_, _, _, _, _)
BuildEntries(folders, arch, me, cat, acc) ==
    IF folders = <<>> THEN acc
    ELSE LET f == Head(folders)
             rest == Tail(folders)
             pinned_mode == StartsWith(cat, <<"P", "I", "N", "N", "E", "D">>)
             show_dm == StartsWith(cat, <<"D", "M">>)
             show_space == StartsWith(cat, <<"S", "P", "A", "C", "E">>)
             loaded == load_messages(arch[f].file)
             messages == loaded.value
             pinned_count == count_pinned(messages)
             title == IF get_space_title(arch[f].info) \in {None, <<>>}
                      THEN f ELSE get_space_title(arch[f].info)
         IN  IF arch[f].file.kind = "missing" THEN BuildEntries(rest, arch, me, cat, acc)
             ELSE IF loaded.raised # "none" THEN [acc EXCEPT !.raised = loaded.raised]
             ELSE IF pinned_mode /\ pinned_count = 0
                  THEN BuildEntries(rest, arch, me, cat, acc)
             ELSE IF (show_dm \/ pinned_mode) /\ StartsWith(f, <<"D", "M">>)
                  THEN BuildEntries(rest, arch, me, cat,
                         [acc EXCEPT
                            !.entries = Append(@, EntryLine(<<"D", "M">>,
                                get_dm_participant(messages, me) \o PinnedSuffix(pinned_count), f)),
                            !.folders = Append(@, f)])
             ELSE IF (show_space \/ pinned_mode) /\ StartsWith(f, <<"S", "p", "a", "c", "e">>)
                  THEN BuildEntries(rest, arch, me, cat,
                         [acc EXCEPT
                            !.entries = Append(@, EntryLine(<<"S", "P">>,
                                title \o PinnedSuffix(pinned_count), f)),
                            !.folders = Append(@, f)])
             ELSE BuildEntries(rest, arch, me, cat, acc)

\* run_fzf: the user picks line i of the options (0: aborts); the answer is
\* stripped
run_fzf(options, i) == IF i = 0 THEN <<>> ELSE Strip(options[i])

\* selected.split("|")[-1].strip()
RECURSIVE AfterLastPipe(_)
AfterLastPipe(s) ==
    IF \A i \in DOMAIN s : s[i] # "|" THEN s
    ELSE AfterLastPipe(Tail(s))

FolderOf(line) == Strip(AfterLastPipe(line))

(***************************************************************************)
(* Spec: one run of main over every small archive.                         *)
(***************************************************************************)
FolderDM == <<"D", "M", "1">>

FolderPipe == <<"D", "M", "|", "2">>

FolderSpace == <<"S", "p", "a", "c", "e", "1">>

FolderOther == <<"2">>

FolderNames == {FolderDM, FolderPipe, FolderSpace, FolderOther}

\* a text message of sender A with a label that is not PINNED, and a pinned
\* non-text message of sender B, whose name holds a "|"
MsgText1 ==
    [email |-> EmailA, name |-> <<"A", "l">>, text |-> <<"h", "i">>,
     message_labels |-> <<"STARRED">>, created_date |-> RawDate]

MsgPinned1 ==
    [email |-> EmailB, name |-> <<"B", "|", "b">>, text |-> None,
     message_labels |-> <<"PINNED">>, created_date |-> BadDate]

MainMessages == {MsgText1, MsgPinned1}

MessageFiles ==
    [kind : {"missing", "invalid", "scalar", "object"}, messages : {<<>>}]
    \cup [kind : {"messages", "list"}, messages : SeqsUpTo(MainMessages, MaxMsgs)]

NoInfo == [kind |-> "missing", name |-> None]

SpaceInfo == [kind |-> "object", name |-> <<"T", "|", "m">>]

\* the contents a folder may have: only a Space folder holds a group_info.json
FolderContents(f) ==
    [file : MessageFiles,
     info : IF StartsWith(f, <<"S", "p", "a", "c", "e">>) THEN {NoInfo, SpaceInfo} ELSE {NoInfo}]

\* the archives of at most two folders
Archives ==
    UNION {{a \in [S -> [file : MessageFiles, info : {NoInfo, SpaceInfo}]] :
               \A f \in S : a[f] \in FolderContents(f)} :
           S \in {T \in SUBSET FolderNames : Cardinality(T) <= 2}}

\* what the user may type at "Enter your email: " (stripped)
PromptAnswers == {<<>>, EmailA}

MainTerms == {80}

Init ==
    /\ pc = "start"
    /\ term \in MainTerms
    /\ archive \in Archives
    /\ groups_path = None /\ my_email = None /\ category = None
    /\ entries = <<>> /\ entry_folders = <<>> /\ selected = None /\ choice = 0
    /\ folder = None /\ chat_text = None /\ pager_calls = 0
    /\ prompted = FALSE /\ history = <<>> /\ err = "none"
    /\ args = None /\ ret = None

\* find_existing_takeout: Downloads/Takeout/Google Chat/Groups exists or not
FindExistingTakeout ==
    /\ pc = "start"
    /\ history' = Append(history, "discovery")
    /\ \E exists \in BOOLEAN :
          IF exists
          THEN groups_path' = <<"G", "r", "o", "u", "p", "s">> /\ pc' = "identity"
          ELSE groups_path' = None /\ pc' = "find_zip"
    /\ UNCHANGED <<term, archive, my_email, category, entries, entry_folders, selected,
                   choice, folder, chat_text, pager_calls, prompted, err, args, ret>>

\* find_latest_takeout_zip: os.listdir(DOWNLOADS) raises when Downloads is not
\* there, and os.path.getmtime in the sort key raises on a listed zip that
\* cannot be read (a dangling link); without a takeout-*.zip the run returns
FindLatestZip ==
    /\ pc = "find_zip"
    /\ \E outcome \in {"zip", "no_zip", "FileNotFoundError"} :
          /\ pc' = CASE outcome = "zip" -> "extract"
                     [] outcome = "no_zip" -> "done"
                     [] OTHER -> "error"
          /\ err' = IF outcome = "FileNotFoundError" THEN "FileNotFoundError" ELSE err
    /\ UNCHANGED <<term, archive, groups_path, my_email, category, entries, entry_folders,
                   selected, choice, folder, chat_text, pager_calls, prompted, history,
                   args, ret>>

\* extract_takeout and the second find_existing_takeout: the extraction may
\* raise, and the extracted tree may hold no Groups folder
ExtractTakeout ==
    /\ pc = "extract"
    /\ \E outcome \in {"groups", "no_groups", "BadZipFile"} :
          /\ pc' = CASE outcome = "groups" -> "identity"
                     [] outcome = "no_groups" -> "done"
                     [] OTHER -> "error"
          /\ groups_path' = IF outcome = "groups"
                            THEN <<"G", "r", "o", "u", "p", "s">> ELSE None
          /\ err' = IF outcome = "BadZipFile" THEN "BadZipFile" ELSE err
    /\ UNCHANGED <<term, archive, my_email, category, entries, entry_folders, selected,
                   choice, folder, chat_text, pager_calls, prompted, history, args, ret>>

\* step 3: detect_my_email, and the prompt when it finds nobody
DetectIdentity ==
    /\ pc = "identity"
    /\ history' = Append(history, "identity")
    /\ \E listing \in Listings(DOMAIN archive) :
          LET detected == detect_my_email(archive, listing)
          IN  IF detected # None /\ detected # <<>>
              THEN my_email' = detected /\ prompted' = FALSE
              ELSE prompted' = TRUE /\ \E answer \in PromptAnswers : my_email' = answer
    /\ pc' = "category"
    /\ UNCHANGED <<term, archive, groups_path, category, entries, entry_folders, selected,
                   choice, folder, chat_text, pager_calls, err, args, ret>>

\* step 4: the category selector; an empty answer ends the run
SelectCategory ==
    /\ pc = "category"
    /\ history' = Append(history, "category")
    /\ \E i \in 0..3 : category' = run_fzf(<<CatDM, CatSpace, CatPinned>>, i)
    /\ pc' = IF category' = <<>> THEN "done" ELSE "catalog"
    /\ UNCHANGED <<term, archive, groups_path, my_email, entries, entry_folders, selected,
                   choice, folder, chat_text, pager_calls, prompted, err, args, ret>>

\* step 5: the chat list; without entries the run returns
BuildCatalog ==
    /\ pc = "catalog"
    /\ LET built == BuildEntries(Sorted(DOMAIN archive), archive, my_email, category,
                                 [raised |-> "none", entries |-> <<>>, folders |-> <<>>])
       IN  /\ entries' = built.entries
           /\ entry_folders' = built.folders
           /\ err' = built.raised
           /\ pc' = IF built.raised # "none" THEN "error"
                    ELSE IF built.entries = <<>> THEN "done"
                    ELSE "select_chat"
    /\ UNCHANGED <<term, archive, groups_path, my_email, category, selected, choice,
                   folder, chat_text, pager_calls, prompted, history, args, ret>>

\* step 6: the chat selector; an empty answer ends the run
SelectChat ==
    /\ pc = "select_chat"
    /\ history' = Append(history, "conversation")
    /\ \E i \in 0..Len(entries) :
          /\ choice' = i
          /\ selected' = run_fzf(entries, i)
    /\ pc' = IF selected' = <<>> THEN "done" ELSE "load"
    /\ UNCHANGED <<term, archive, groups_path, my_email, category, entries, entry_folders,
                   folder, chat_text, pager_calls, prompted, err, args, ret>>

\* step 7: the folder is read off the selected line, its messages are loaded,
\* composed and handed to the pager
Display ==
    /\ pc = "load"
    /\ folder' = FolderOf(selected)
    /\ LET pinned_mode == StartsWith(category, <<"P", "I", "N", "N", "E", "D">>)
           loaded == load_messages(MessagesFile(archive, folder'))
           messages == IF pinned_mode THEN extract_pinned(loaded.value) ELSE loaded.value
           composed == format_chat(messages, my_email, pinned_mode, term)
       IN  IF loaded.raised # "none"
           THEN /\ err' = loaded.raised /\ pc' = "error"
                /\ UNCHANGED <<chat_text, pager_calls, history>>
           ELSE IF composed.raised # "none"
           THEN /\ err' = composed.raised /\ pc' = "error"
                /\ UNCHANGED <<chat_text, pager_calls, history>>
           ELSE /\ chat_text' = composed.doc
                /\ pager_calls' = pager_calls + 1
                /\ history' = Append(history, "display")
                /\ pc' = "done"
                /\ UNCHANGED err
    /\ UNCHANGED <<term, archive, groups_path, my_email, category, entries, entry_folders,
                   selected, choice, prompted, args, ret>>

Next ==
    \/ FindExistingTakeout
    \/ FindLatestZip
    \/ ExtractTakeout
    \/ DetectIdentity
    \/ SelectCategory
    \/ BuildCatalog
    \/ SelectChat
    \/ Display

Spec == Init /\ [][Next]_vars

(***************************************************************************)
(* The variables of main, at rest while one function is exercised.         *)
(***************************************************************************)
MainIdle ==
    /\ archive = None /\ groups_path = None /\ my_email = None /\ category = None
    /\ entries = <<>> /\ entry_folders = <<>> /\ selected = None /\ choice = 0
    /\ folder = None /\ chat_text = None /\ pager_calls = 0
    /\ prompted = FALSE /\ history = <<>> /\ err = "none"

(***************************************************************************)
(* SpecPad: pad_text applied to a string, and again to its own result.     *)
(***************************************************************************)
PadAlphabet == {" ", "a", "WIDE", "ZERO", "CTL"}

InitPad ==
    /\ pc = "pad_call"
    /\ term = 80
    /\ args \in [text : SeqsUpTo(PadAlphabet, MaxLen), width : 0..MaxPadWidth]
    /\ ret = None
    /\ MainIdle

PadOnce ==
    /\ pc = "pad_call"
    /\ ret' = [once |-> pad_text(args.text, args.width), twice |-> None]
    /\ pc' = "padded"
    /\ UNCHANGED <<term, args, mainVars>>

PadTwice ==
    /\ pc = "padded"
    /\ ret' = [ret EXCEPT !.twice = pad_text(ret.once, args.width)]
    /\ pc' = "repadded"
    /\ UNCHANGED <<term, args, mainVars>>

NextPad == PadOnce \/ PadTwice

SpecPad == InitPad /\ [][NextPad]_vars

(***************************************************************************)
(* SpecBubble: draw_bubble on a terminal of every width up to MaxTerm.     *)
(***************************************************************************)
BubbleAlphabet == {" ", "a", "WIDE", "ZERO"}

InitBubble ==
    /\ pc = "bubble_call"
    /\ term \in 1..MaxTerm
    /\ args \in [text : SeqsUpTo(BubbleAlphabet, MaxBubbleText),
                  align : {"left", "right"}]
    /\ ret = None
    /\ MainIdle

DrawBubble ==
    /\ pc = "bubble_call"
    /\ ret' = draw_bubble(args.text, args.align, term)
    /\ pc' = IF ret'.raised = "none" THEN "drawn" ELSE "raised"
    /\ UNCHANGED <<term, args, mainVars>>

NextBubble == DrawBubble

SpecBubble == InitBubble /\ [][NextBubble]_vars

(***************************************************************************)
(* SpecDM: get_dm_participant on every short conversation.                 *)
(***************************************************************************)
Bob == <<"B", "o", "b">>

Eve == <<"E", "v", "e">>

DMMessages ==
    [email : {None, EmailA, EmailB},
     name : {None, <<>>, Unknown, Bob, Eve},
     text : {<<"h", "i">>},
     message_labels : {<<>>},
     created_date : {None}]

InitDM ==
    /\ pc = "dm_call"
    /\ term = 80
    /\ args \in [messages : SeqsUpTo(DMMessages, MaxDMMsgs),
                 my_email : {<<>>, EmailA, EmailB}]
    /\ ret = None
    /\ MainIdle

GetDmParticipant ==
    /\ pc = "dm_call"
    /\ ret' = get_dm_participant(args.messages, args.my_email)
    /\ pc' = "dm_done"
    /\ UNCHANGED <<term, args, mainVars>>

NextDM == GetDmParticipant

SpecDM == InitDM /\ [][NextDM]_vars

(***************************************************************************)
(* SpecChat: format_chat on every short message list, on a terminal too    *)
(* narrow for any bubble (width 1) and on one wide enough to hold the      *)
(* placeholder on one line (width 60).  The date of a message follows its  *)
(* sender: the viewer's messages carry a date strptime accepts, the other  *)
(* sender's a date it rejects.                                             *)
(***************************************************************************)
ChatTerms == {1, 60}

ChatMessages ==
    {[email |-> e, name |-> Bob, text |-> t, message_labels |-> l,
      created_date |-> IF e = EmailA THEN RawDate ELSE BadDate] :
        e \in {EmailA, EmailB},
        t \in {None, <<" ">>, <<" ", "h", "i">>},
        l \in {<<>>, <<"STARRED">>, <<"STARRED", "PINNED">>}}

InitChat ==
    /\ pc = "chat_call"
    /\ term \in ChatTerms
    /\ args \in [messages : SeqsUpTo(ChatMessages, MaxChatMsgs),
                 my_email : {EmailA},
                 pinned_only : BOOLEAN]
    /\ ret = None
    /\ MainIdle

FormatChat ==
    /\ pc = "chat_call"
    /\ ret' = format_chat(args.messages, args.my_email, args.pinned_only, term)
    /\ pc' = IF ret'.raised = "none" THEN "chat_done" ELSE "raised"
    /\ UNCHANGED <<term, args, mainVars>>

NextChat == FormatChat

SpecChat == InitChat /\ [][NextChat]_vars

(***************************************************************************)
(* Claims about the text-width engine and the bubble renderer.             *)
(***************************************************************************)

\* C6 (as claimed): for every string s and width w, also when the width
\* function reports s as negative: displayWidth(s) <= w implies
\* displayWidth(pad_text(s, w)) >= w; displayWidth(s) >= w implies
\* pad_text(s, w) = s; and pad_text(pad_text(s, w), w) = pad_text(s, w).
C6_PadLaws ==
    /\ pc \in {"padded", "repadded"} =>
          /\ wcswidth(args.text) <= args.width => wcswidth(ret.once) >= args.width
          /\ wcswidth(args.text) >= args.width => ret.once = args.text
    /\ pc = "repadded" => ret.twice = ret.once

\* the words of a text: its maximal runs of non-space characters
Words(text) == {c \in {SplitChunks(text)[i] : i \in DOMAIN SplitChunks(text)} : ~IsBlank(c)}

\* the content of line i of the bubble, between "BOX_V " and " BOX_V"
Interior(lines, i) ==
    LET l == LStrip(lines[i + 1]) IN SubSeq(l, 3, Len(l) - 2)

\* C5 (as claimed): when no word of the text is wider than W columns, every
\* interior line of the bubble is exactly W columns wide after padding and no
\* wrapped line is wider than W columns before padding.
C5_InteriorLinesExactWidth ==
    (pc = "drawn" /\ \A w \in Words(args.text) : wcswidth(w) <= MAX_BUBBLE_WIDTH(term)) =>
        \A i \in DOMAIN ret.wrapped :
            /\ wcswidth(ret.wrapped[i]) <= MAX_BUBBLE_WIDTH(term)
            /\ wcswidth(Interior(ret.lines, i)) = MAX_BUBBLE_WIDTH(term)

\* number of spaces a line starts with
LeadingSpaces(line) == Len(line) - Len(LStrip(line))

\* line i of the drawn bubble without its leading pad
Box(lines, i) == LStrip(lines[i])

\* C9 (as claimed): for every terminal width T >= 1, with W = floor(0.55 T),
\* the framed bubble is W + 4 columns wide and strictly narrower than T; every
\* line of a right-aligned bubble starts with the same T - (W + 4) >= 0
\* spaces, so that the right edge of the box, on every line, is at column T;
\* a left-aligned bubble has no leading pad.
C9_GeometryEveryWidth ==
    (pc # "bubble_call" /\ term >= 1) =>
        LET T == term
            W == (term * 55) \div 100
        IN  /\ W + 4 < T
            /\ pc = "drawn"
            /\ \A i \in DOMAIN ret.lines : wcswidth(Box(ret.lines, i)) = W + 4
            /\ args.align = "right" =>
                  /\ T - (W + 4) >= 0
                  /\ \A i \in DOMAIN ret.lines :
                        /\ LeadingSpaces(ret.lines[i]) = T - (W + 4)
                        /\ wcswidth(ret.lines[i]) = T
            /\ args.align = "left" =>
                  \A i \in DOMAIN ret.lines : LeadingSpaces(ret.lines[i]) = 0

(***************************************************************************)
(* Claims about the DM participant and the transcript composer.            *)
(***************************************************************************)

\* the positions of a conversation whose sender is not the viewer and has a
\* usable name
C4_Candidates(messages, me) ==
    {i \in DOMAIN messages :
        /\ messages[i].email # me
        /\ messages[i].name \notin {None, <<>>, Unknown}}

\* C4: get_dm_participant returns the name of the first message in file order
\* whose sender differs from the viewer and whose sender name is present,
\* non-empty and not "Unknown"; without such a message, "Deleted User".
C4_FirstOtherSender ==
    pc = "dm_done" =>
        LET Q == C4_Candidates(args.messages, args.my_email)
        IN  IF Q = {} THEN ret = DeletedUser
            ELSE ret = args.messages[CHOOSE i \in Q : \A j \in Q : i <= j].name

\* C4 witness: the viewer's own named message is passed over, and of the two
\* other senders with different usable names the earlier one is returned.
C4_Witness ==
    /\ pc = "dm_done"
    /\ Len(args.messages) = 3
    /\ args.messages[1].email = args.my_email /\ args.messages[1].name = Bob
    /\ args.messages[2].email # args.my_email /\ args.messages[2].name = Eve
    /\ args.messages[3].email # args.my_email /\ args.messages[3].name = Bob
    /\ ret = Eve

\* a message has text once trimmed
C3_HasText(msg) == msg.text # None /\ \E i \in DOMAIN msg.text : msg.text[i] # " "

C3_HasPinnedLabel(msg) == "PINNED" \in {msg.message_labels[i] : i \in DOMAIN msg.message_labels}

\* the positions of the messages that have text or are pinned, in file order
RECURSIVE C3_KeptFrom(_, _)
C3_KeptFrom(messages, i) ==
    IF i > Len(messages) THEN <<>>
    ELSE (IF C3_HasText(messages[i]) \/ C3_HasPinnedLabel(messages[i])
          THEN <<i>> ELSE <<>>) \o C3_KeptFrom(messages, i + 1)

\* the lines of the document after its banner, block by block
RECURSIVE C3_BlocksMatch(_, _)
C3_BlocksMatch(lines, blocks) ==
    IF blocks = <<>> THEN lines = <<>>
    ELSE LET b == Head(blocks)
             n == 2 + Len(b.bubble.lines)
         IN  /\ Len(lines) >= n
             /\ lines[1] = <<>>
             /\ lines[2] = b.header
             /\ SubSeq(lines, 3, n) = b.bubble.lines
             /\ C3_BlocksMatch(SubSeq(lines, n + 1, Len(lines)), Tail(blocks))

\* C3: the document composed by format_chat holds one header + bubble block
\* per message that has text (once trimmed) or is pinned, in file order, and
\* none for the others; a pinned message without text is rendered with the
\* placeholder "[Pinned message (non-text)]" under a header that starts with
\* "[PINNED] ".
C3_BlocksOfDisplayedMessages ==
    pc = "chat_done" =>
        LET kept == C3_KeptFrom(args.messages, 1)
            banner == IF args.pinned_only THEN 2 ELSE 4
        IN  /\ Len(ret.blocks) = Len(kept)
            /\ C3_BlocksMatch(SubSeq(ret.doc, banner + 1, Len(ret.doc)), ret.blocks)
            /\ \A k \in DOMAIN kept :
                 LET msg == args.messages[kept[k]]
                     b == ret.blocks[k]
                 IN  /\ C3_HasText(msg) => b.text = Strip(msg.text)
                     /\ ~C3_HasText(msg) => b.text = Placeholder
                     /\ b.bubble.wrapped = <<b.text>>
                     /\ C3_HasPinnedLabel(msg) <=> StartsWith(LStrip(b.header), PinIcon)

\* C3 witness: of two messages without text the pinned one is rendered with the
\* placeholder and the other is dropped.
C3_Witness ==
    /\ pc = "chat_done"
    /\ Len(args.messages) = 2
    /\ ~C3_HasText(args.messages[1]) /\ ~C3_HasPinnedLabel(args.messages[1])
    /\ ~C3_HasText(args.messages[2]) /\ C3_HasPinnedLabel(args.messages[2])
    /\ Len(ret.blocks) = 1
    /\ ret.blocks[1].text = Placeholder

(***************************************************************************)
(* Claims about the run of main.                                           *)
(***************************************************************************)

\* the catalog loop has run and main has not yet moved on to the chat selector
AfterCatalog ==
    /\ category \notin {None, <<>>}
    /\ pc \in {"select_chat", "done", "error"}
    /\ history = <<"discovery", "identity", "category">>

\* C1 (as claimed): loading a messages file never fails the caller: whatever
\* the file holds, load_messages returns a sequence, the empty one for a
\* malformed file; so the catalog loop completes over an archive with a
\* malformed messages file and the run goes on to the chat selection (or ends
\* without chats) instead of ending in an error state.
C1_LoadNeverFailsTheCaller ==
    AfterCatalog =>
        /\ \A f \in DOMAIN archive :
              archive[f].file.kind # "missing" =>
                  /\ load_messages(archive[f].file).raised = "none"
                  /\ archive[f].file.kind \in {"invalid", "scalar", "object"} =>
                         load_messages(archive[f].file).value = <<>>
        /\ pc # "error"
        /\ err = "none"

\* the catalog loop ran to its end
CatalogBuilt ==
    /\ category \notin {None, <<>>}
    /\ pc \in {"select_chat", "load", "done", "error"}
    /\ err # "JSONDecodeError"

\* number of messages of a folder's messages file that carry a PINNED label
C2_Pinned(f) ==
    LET file == archive[f].file
    IN  IF file.kind \in {"messages", "list"}
        THEN Cardinality({i \in DOMAIN file.messages :
                 \E j \in DOMAIN file.messages[i].message_labels :
                     file.messages[i].message_labels[j] = "PINNED"})
        ELSE 0

\* the folders the PINNED ONLY catalog is to list
C2_Listed ==
    {f \in DOMAIN archive :
        /\ archive[f].file.kind # "missing"
        /\ StartsWith(f, <<"D", "M">>) \/ StartsWith(f, <<"S", "p", "a", "c", "e">>)
        /\ C2_Pinned(f) > 0}

\* the folder a catalog line ends with
C2_LineFolder(line) ==
    CHOOSE f \in DOMAIN archive : EndsWith(line, <<" ", "|", " ">> \o f)

\* C2: with the filter PINNED ONLY the catalog holds an entry for a folder if
\* and only if the folder has a messages file, its name starts with DM or
\* Space, and at least one of its messages is pinned; the entries are in
\* lexical folder order and each carries " (PIN N)" with N its pinned count.
C2_PinnedOnlyCatalog ==
    (CatalogBuilt /\ category = CatPinned) =>
        /\ Len(entries) = Cardinality(C2_Listed)
        /\ \A f \in C2_Listed :
              \E i \in DOMAIN entries :
                  /\ EndsWith(entries[i], <<" ", "|", " ">> \o f)
                  /\ Contains(entries[i],
                              <<" ", "(", "PIN", " ">> \o Str(C2_Pinned(f)) \o <<")">>)
        /\ \A i, j \in DOMAIN entries :
              i < j => StrLess(C2_LineFolder(entries[i]), C2_LineFolder(entries[j]))

\* C2 witness: of two conversations, one without pinned messages and one with
\* two, the PINNED ONLY catalog lists the second alone.
C2_Witness ==
    /\ CatalogBuilt /\ category = CatPinned
    /\ DOMAIN archive = {FolderDM, FolderSpace}
    /\ C2_Pinned(FolderDM) = 0 /\ Len(archive[FolderDM].file.messages) > 0
    /\ C2_Pinned(FolderSpace) = 2
    /\ Len(entries) = 1
    /\ Contains(entries[1], <<" ", "(", "PIN", " ", "2", ")">>)

StepOrder == <<"discovery", "identity", "category", "conversation", "display">>

IsPrefix(s, t) == Len(s) <= Len(t) /\ SubSeq(t, 1, Len(s)) = s

\* C7 (as claimed): the steps of main occur in the order discovery, identity,
\* category selection, conversation selection, display; the pager is invoked
\* at most once, and only after the archive root was found, an identity was
\* obtained and both selections answered; when no archive is found the run
\* ends without error and without a later step (an error without an archive
\* root comes only from extracting a zip that was found), and after an empty
\* selection the run is over, without error, later step or pager.
C7_StepsInOrder ==
    /\ IsPrefix(history, StepOrder)
    /\ pager_calls <= 1
    /\ pager_calls = 1 =>
          /\ groups_path # None /\ my_email # None
          /\ category \notin {None, <<>>} /\ selected \notin {None, <<>>}
          /\ history = StepOrder
    /\ groups_path = None =>
          /\ IsPrefix(history, <<"discovery">>) /\ pager_calls = 0
          /\ pc = "error" => err = "BadZipFile"
    /\ (pc \notin {"start", "find_zip", "extract"} /\ groups_path = None) =>
          pc \in {"done", "error"}
    /\ category = <<>> =>
          /\ pc = "done" /\ err = "none" /\ pager_calls = 0
          /\ history = SubSeq(StepOrder, 1, 3)
    /\ selected = <<>> =>
          /\ pc = "done" /\ err = "none" /\ pager_calls = 0
          /\ history = SubSeq(StepOrder, 1, 4)

\* number of sampled messages of the archive sent by identity e, over the
\* messages files of both shapes
C8_Tally(e) ==
    LET Sampled(f) == IF archive[f].file.kind \in {"messages", "list"}
                      THEN SubSeq(archive[f].file.messages, 1,
                                  Min(SampleLimit, Len(archive[f].file.messages)))
                      ELSE <<>>
        RECURSIVE Sum(_)
        Sum(S) == IF S = {} THEN 0
                  ELSE LET f == CHOOSE x \in S : TRUE
                       IN  Cardinality({i \in DOMAIN Sampled(f) : Sampled(f)[i].email = e})
                           + Sum(S \ {f})
    IN  Sum(DOMAIN archive)

C8_Identities == {EmailA, EmailB}

\* C8 (as claimed): the detected identity has the largest tally over the first
\* 200 messages of every messages file, object or bare list; main asks for
\* the identity if and only if no sender identity occurs in them.
C8_MostFrequentSender ==
    (groups_path # None /\ my_email # None) =>
        /\ prompted <=> \A e \in C8_Identities : C8_Tally(e) = 0
        /\ ~prompted =>
              /\ my_email \in C8_Identities
              /\ \A e \in C8_Identities : C8_Tally(e) <= C8_Tally(my_email)

\* C10 (as claimed): when the selector returns the line of a catalog entry,
\* the folder read off the line is the folder the entry was built from, and
\* that conversation's messages are loaded and shown.
C10_SelectedFolderRoundTrip ==
    (choice # 0 /\ folder # None) =>
        /\ folder = entry_folders[choice]
        /\ err = "none"
        /\ pager_calls = 1

====
